---- MODULE Spec2Model ----
(***************************************************************************)
(* Model of the spectral registration notebook                             *)
(*   src/notebooks/wavelength_registration/                                *)
(*       NIRSpec MOS spectral registration.ipynb                           *)
(* The notebook's cells run top to bottom; an exception in a cell stops    *)
(* the run.  Floating point numbers are modelled as exact rationals        *)
(* <<n, d>> in lowest terms with d > 0; every non-finite float (nan, inf)  *)
(* is the single value NaN == <<0, 0>>.  Wavelengths are counted in units  *)
(* of 0.85 micron, so that the notebook's cutoff of 1.70 micron is 2.      *)
(***************************************************************************)
EXTENDS Integers, Sequences, FiniteSets, TLC

----------------------------------------------------------------------------
(* Bounds of the model *)

\* longest spectrum loaded
MaxLen == 3
\* wavelength grids are runs of consecutive grid points within 1..MaxWave
MaxWave == MaxLen + 1
\* objective evaluations one call of the minimizer may make (the first at x0)
MaxEvals == 3
\* longest coefficient vector handed to alter_wave on its own
MaxCoefs == 3

(* Program constants *)

\* out_wave >= 1.70, in the model's wavelength unit
Cutoff == 2
\* models.Polynomial1D(2)
Degree == 2
\* bad_wave2 = wave2[in_wave2] * 1.1, as the fraction ScaleNum / ScaleDen
ScaleNum == 11
ScaleDen == 10

----------------------------------------------------------------------------
(* Floating point values as exact rationals *)

Abs(n) == IF n < 0 THEN -n ELSE n

RECURSIVE GCD(_, _)
GCD(a, b) == IF b = 0 THEN a ELSE GCD(b, a % b)

NaN == <<0, 0>>

Rat(n, d) ==
    IF d = 0 THEN NaN
    ELSE LET g == GCD(Abs(n), Abs(d))
             s == IF d < 0 THEN -1 ELSE 1
         IN  <<(s * n) \div g, (s * d) \div g>>

R(n) == <<n, 1>>

isfinite(a) == a[2] # 0

\* a + b over the least common denominator
add(a, b) ==
    IF isfinite(a) /\ isfinite(b)
    THEN LET g == GCD(a[2], b[2])
         IN  Rat(a[1] * (b[2] \div g) + b[1] * (a[2] \div g),
                 (a[2] \div g) * b[2])
    ELSE NaN
neg(a) == <<-a[1], a[2]>>
sub(a, b) == add(a, neg(b))
\* a * b, cancelling across before multiplying
mul(a, b) ==
    IF isfinite(a) /\ isfinite(b)
    THEN LET g == GCD(Abs(a[1]), b[2])
             h == GCD(Abs(b[1]), a[2])
         IN  Rat((a[1] \div g) * (b[1] \div h), (a[2] \div h) * (b[2] \div g))
    ELSE NaN
\* x / 0 is inf or nan in numpy: not finite either way
div(a, b) ==
    IF isfinite(a) /\ isfinite(b) /\ b[1] # 0
    THEN mul(a, IF b[1] < 0 THEN <<-b[2], -b[1]>> ELSE <<b[2], b[1]>>)
    ELSE NaN

\* comparisons are false as soon as one side is not finite
lt(a, b) == isfinite(a) /\ isfinite(b) /\ sub(a, b)[1] < 0
le(a, b) == isfinite(a) /\ isfinite(b) /\ sub(a, b)[1] <= 0
ne(a, b) == ~isfinite(a) \/ ~isfinite(b) \/ a # b

RECURSIVE pow(_, _)
pow(a, k) == IF k = 0 THEN R(1) ELSE mul(a, pow(a, k - 1))

----------------------------------------------------------------------------
(* numpy arrays as sequences *)

\* an array built element by element, held as a sequence of its values
array(a) == a \o <<>>

RECURSIVE sum(_)
sum(a) == IF a = <<>> THEN R(0) ELSE add(a[1], sum(Tail(a)))

RECURSIVE amin(_)
amin(a) == IF Len(a) = 1 THEN a[1]
           ELSE LET m == amin(Tail(a)) IN IF lt(a[1], m) THEN a[1] ELSE m

RECURSIVE amax(_)
amax(a) == IF Len(a) = 1 THEN a[1]
           ELSE LET m == amax(Tail(a)) IN IF lt(m, a[1]) THEN a[1] ELSE m

\* Python's max(a, b) and min(a, b)
max(a, b) == IF lt(a, b) THEN b ELSE a
min(a, b) == IF lt(b, a) THEN b ELSE a

\* a[mask]: the elements where the boolean mask is true, in order
RECURSIVE take(_, _)
take(a, mask) ==
    IF a = <<>> THEN <<>>
    ELSE (IF mask[1] THEN <<a[1]>> ELSE <<>>) \o take(Tail(a), Tail(mask))

\* mutant of scale: the factor is added, not multiplied
scale_as(a, s) == array([i \in 1..Len(a) |-> add(a[i], s)])

\* a * s for a scalar s
scale(a, s) == array([i \in 1..Len(a) |-> mul(a[i], s)])

\* a.std(): numpy's default (ddof = 0) over all elements with equal weight.
\* The model carries the square of the standard deviation, which orders and
\* separates objective values exactly as the standard deviation does; the
\* standard deviation of an empty array is nan.
std(a) ==
    IF Len(a) = 0 THEN NaN
    ELSE LET n    == R(Len(a))
             mean == div(sum(a), n)
             dev  == array([i \in 1..Len(a) |->
                        mul(sub(a[i], mean), sub(a[i], mean))])
         IN  div(sum(dev), n)

----------------------------------------------------------------------------
(* scipy.interpolate.interp1d(x, y, fill_value='extrapolate')(x_new) *)

\* position of x[i] once x is sorted (argsort; ties keep their order)
rank(x, i) ==
    1 + Cardinality({j \in 1..Len(x) :
                        lt(x[j], x[i]) \/ (x[j] = x[i] /\ j < i)})

argsort(x) == array([r \in 1..Len(x) |-> CHOOSE i \in 1..Len(x) : rank(x, i) = r])

\* searchsorted(x, v): how many elements of the sorted x lie below v
searchsorted(x, v) == Cardinality({j \in 1..Len(x) : lt(x[j], v)})

clip(i, lo, hi) == IF i < lo THEN lo ELSE IF i > hi THEN hi ELSE i

\* linear interpolation between the two neighbours of v; outside the range of
\* x the first or the last segment is extended
interp1d(x, y, x_new) ==
    LET ind == argsort(x)
        xs  == array([r \in 1..Len(x) |-> x[ind[r]]])
        ys  == array([r \in 1..Len(x) |-> y[ind[r]]])
        at(v) ==
            LET hi    == clip(searchsorted(xs, v), 1, Len(xs) - 1) + 1
                lo    == hi - 1
                slope == div(sub(ys[hi], ys[lo]), sub(xs[hi], xs[lo]))
            IN  add(mul(slope, sub(v, xs[lo])), ys[lo])
    IN  array([i \in 1..Len(x_new) |-> at(x_new[i])])

\* interp1d refuses fewer than two samples (ValueError)
interp1d_raises(x, y) == Len(x) < 2 \/ Len(x) # Len(y)

----------------------------------------------------------------------------
(* astropy: models.Polynomial1D(2) and fitting.LinearLSQFitter() *)

\* mutant of polyval: the coefficients are read highest order first
polyval_as(c, w) ==
    array([i \in 1..Len(w) |->
        add(c[3], add(mul(c[2], w[i]), mul(c[1], pow(w[i], 2))))])

\* normalization(w): c0 + c1 * w + c2 * w**2, element by element
polyval(c, w) ==
    array([i \in 1..Len(w) |->
        add(c[1], add(mul(c[2], w[i]), mul(c[3], pow(w[i], 2))))])

\* sum of y * x**k over the samples
moment(x, y, k) == sum(array([i \in 1..Len(x) |-> mul(y[i], pow(x[i], k))]))

det3(m) ==
    add(sub(mul(m[1][1], sub(mul(m[2][2], m[3][3]), mul(m[2][3], m[3][2]))),
            mul(m[1][2], sub(mul(m[2][1], m[3][3]), mul(m[2][3], m[3][1])))),
        mul(m[1][3], sub(mul(m[2][1], m[3][2]), mul(m[2][2], m[3][1]))))

\* the least-squares solution of a full-rank problem, from the normal
\* equations by Cramer's rule
lstsq(x, y) ==
    LET ones == array([i \in 1..Len(x) |-> R(1)])
        A == array([j \in 1..3 |-> array([k \in 1..3 |-> moment(x, ones, j + k - 2)])])
        b == array([j \in 1..3 |-> moment(x, y, j - 1)])
        col(n) == array([j \in 1..3 |-> array([k \in 1..3 |->
                      IF k = n THEN b[j] ELSE A[j][k]])])
        d == det3(A)
    IN  array([n \in 1..3 |-> div(det3(col(n)), d)])

\* values the library may give a coefficient the samples leave undetermined
FreeCoefs == {R(0), R(1)}

\* fitter(norm_model, x, y): the outcomes of the linear least-squares fit of a
\* polynomial of degree 2.  More than Degree samples (the grid has no repeated
\* wavelength) determine the polynomial.  With fewer the problem is rank
\* deficient and the library returns one of the polynomials through the
\* samples (f is what it gives the undetermined coefficients); with none the
\* fit is undefined and the library either raises or returns degenerate
\* coefficients.  The notebook checks none of this.
fitter(x, y) ==
    IF Len(x) = 0 THEN
        { [raised |-> TRUE,  c |-> <<>>],
          [raised |-> FALSE, c |-> <<NaN, NaN, NaN>>],
          [raised |-> FALSE, c |-> <<R(0), R(0), R(0)>>] }
    ELSE IF Len(x) > Degree THEN
        { [raised |-> FALSE, c |-> lstsq(x, y)] }
    ELSE IF Len(x) = 1 THEN
        { [raised |-> FALSE,
           c |-> <<sub(y[1], add(mul(f, x[1]), mul(f, pow(x[1], 2)))),
                   f, f>>] : f \in FreeCoefs }
    ELSE
        { LET c1 == sub(div(sub(y[2], y[1]), sub(x[2], x[1])),
                        mul(f, add(x[1], x[2])))
          IN  [raised |-> FALSE,
               c |-> <<sub(y[1], add(mul(c1, x[1]), mul(f, pow(x[1], 2)))),
                       c1, f>>] : f \in FreeCoefs }

----------------------------------------------------------------------------
(* The notebook's state *)

VARIABLES
    pc, err,
    wave1, spec1, wave2, spec2,
    wave_lo, wave_hi, in_wave1, in_wave2,
    out_wave, interp_spec2, div_spec,
    ok_px, normalization, flux_scale_factor, scaled_spec1,
    opt, calls, pixel_fit, bad_wave2, pixel_fit2,
    alt_wave2, alt_spec2, alt_wave2a, alt_spec2a,
    printed,
    call_coefs, call_wave, call_ret

loaded   == <<wave1, spec1, wave2, spec2>>
overlap  == <<wave_lo, wave_hi, in_wave1, in_wave2>>
ratio    == <<out_wave, interp_spec2, div_spec>>
normed   == <<ok_px, normalization, flux_scale_factor, scaled_spec1>>
fits     == <<opt, calls, pixel_fit, bad_wave2, pixel_fit2>>
compared == <<alt_wave2, alt_spec2, alt_wave2a, alt_spec2a>>
called   == <<call_coefs, call_wave, call_ret>>

vars == <<pc, err, loaded, overlap, ratio, normed, fits, compared, printed,
          called>>

----------------------------------------------------------------------------
(* The helper functions of the notebook *)

\* mutant of alter_wave_term: coef * old_wave * c
alter_wave_term_as(coef, w, c) == mul(coef, mul(w, R(c)))

\* one term of the loop body: coef * old_wave**c
alter_wave_term(coef, w, c) == mul(coef, pow(w, c))

\* for c, coef in enumerate(poly_coefs): altered_wave2 += coef * old_wave**c
RECURSIVE alter_wave_loop(_, _, _, _)
alter_wave_loop(poly_coefs, old_wave, c, altered_wave2) ==
    IF c >= Len(poly_coefs) THEN altered_wave2
    ELSE alter_wave_loop(poly_coefs, old_wave, c + 1,
            array([i \in 1..Len(old_wave) |->
                add(altered_wave2[i],
                    alter_wave_term(poly_coefs[c + 1], old_wave[i], c))]))

\* altered_wave2 = np.zeros_like(old_wave), then the loop
alter_wave(poly_coefs, old_wave) ==
    alter_wave_loop(poly_coefs, old_wave, 0,
                    array([i \in 1..Len(old_wave) |-> R(0)]))

\* the second spectrum resampled from `wave` onto the grid of the first
alter_spec(wave) == interp1d(wave, take(spec2, in_wave2), out_wave)

\* mutant of fit_metric_reference: the reference is left unnormalized
fit_metric_reference_as == take(spec1, in_wave1)

\* the reference the difference is taken against
fit_metric_reference == scaled_spec1

\* the standard deviation of the difference spectrum
fit_metric(poly_coefs, old_wave) ==
    LET altered_wave2 == alter_wave(poly_coefs, old_wave)
        altered_spec2 == alter_spec(altered_wave2)
        diff_spec == array([i \in 1..Len(altered_spec2) |->
                        sub(altered_spec2[i], fit_metric_reference[i])])
    IN  std(diff_spec)

----------------------------------------------------------------------------
(* What is loaded *)

\* a wavelength array: consecutive grid points, increasing
Grids ==
    { array([i \in 1..n |-> R(s + i - 1)]) :
        <<s, n>> \in { g \in (1..MaxWave) \X (1..MaxLen) :
                          g[1] + g[2] - 1 <= MaxWave } }

\* a flux sample: 0 marks a masked pixel
FluxValues == {R(0), R(1), R(2)}

Unset == <<>>

\* x0 of both registrations: np.array([0., 1., 0.])
x0_guess == <<R(0), R(1), R(0)>>

\* 1.1
bad_factor == Rat(ScaleNum, ScaleDen)

\* coefficient vectors the simplex search may try after x0: the inverse of
\* the 10 percent scaling, and a constant map (every wavelength warped onto
\* one, which leaves the interpolation without a slope)
inverse_scale == <<R(0), div(R(1), bad_factor), R(0)>>
constant_map == <<R(1), R(0), R(0)>>
Trials == {inverse_scale, constant_map}

Idle ==
    /\ wave_lo = Unset /\ wave_hi = Unset
    /\ in_wave1 = Unset /\ in_wave2 = Unset
    /\ out_wave = Unset /\ interp_spec2 = Unset /\ div_spec = Unset
    /\ ok_px = Unset /\ normalization = Unset
    /\ flux_scale_factor = Unset /\ scaled_spec1 = Unset
    /\ opt = Unset /\ calls = <<0, 0>>
    /\ pixel_fit = Unset /\ bad_wave2 = Unset /\ pixel_fit2 = Unset
    /\ alt_wave2 = Unset /\ alt_spec2 = Unset
    /\ alt_wave2a = Unset /\ alt_spec2a = Unset
    /\ printed = <<>>
    /\ err = "none"

\* the notebook, about to run the overlap cell on two loaded spectra
Init ==
    /\ pc = "overlap"
    /\ wave1 \in Grids /\ spec1 \in [1..Len(wave1) -> FluxValues]
    /\ wave2 \in Grids /\ spec2 \in [1..Len(wave2) -> FluxValues]
    /\ Idle
    /\ call_coefs = Unset /\ call_wave = Unset /\ call_ret = Unset

----------------------------------------------------------------------------
(* Isolate regions of overlap *)

\* mutant of in_wave: the upper bound is excluded
in_wave_as(wave, spec, lo, hi) ==
    array([i \in 1..Len(wave) |->
        le(lo, wave[i]) /\ lt(wave[i], hi) /\ ne(spec[i], R(0))])

\* mutant of in_wave: the flux is not looked at
in_wave_noflux(wave, spec, lo, hi) ==
    array([i \in 1..Len(wave) |-> le(lo, wave[i]) /\ le(wave[i], hi)])

\* (wave >= wave_lo) & (wave <= wave_hi) & (spec != 0.0)
in_wave(wave, spec, lo, hi) ==
    array([i \in 1..Len(wave) |->
        le(lo, wave[i]) /\ le(wave[i], hi) /\ ne(spec[i], R(0))])

\* mutant of IsolateOverlap: an empty selection is an error
IsolateOverlap_as ==
    /\ pc = "overlap"
    /\ wave_lo' = max(amin(wave1), amin(wave2))
    /\ wave_hi' = min(amax(wave1), amax(wave2))
    /\ in_wave1' = array([i \in 1..Len(wave1) |->
                        le(wave_lo', wave1[i]) /\ le(wave1[i], wave_hi')
                        /\ ne(spec1[i], R(0))])
    /\ in_wave2' = array([i \in 1..Len(wave2) |->
                        le(wave_lo', wave2[i]) /\ le(wave2[i], wave_hi')
                        /\ ne(spec2[i], R(0))])
    /\ IF (\A i \in 1..Len(wave1) : ~in_wave1'[i])
          \/ (\A i \in 1..Len(wave2) : ~in_wave2'[i])
       THEN pc' = "error" /\ err' = "EmptyOverlapError"
       ELSE pc' = "ratio" /\ UNCHANGED err
    /\ UNCHANGED <<loaded, ratio, normed, fits, compared, printed, called>>

IsolateOverlap ==
    /\ pc = "overlap"
    /\ wave_lo' = max(amin(wave1), amin(wave2))
    /\ wave_hi' = min(amax(wave1), amax(wave2))
    /\ in_wave1' = in_wave(wave1, spec1, wave_lo', wave_hi')
    /\ in_wave2' = in_wave(wave2, spec2, wave_lo', wave_hi')
    /\ pc' = "ratio"
    /\ UNCHANGED <<err, loaded, ratio, normed, fits, compared, printed,
                   called>>

(* Normalize the continuum: the ratio of the two spectra *)

Ratio ==
    /\ pc = "ratio"
    /\ out_wave' = take(wave1, in_wave1)
    /\ IF interp1d_raises(take(wave2, in_wave2), take(spec2, in_wave2))
       THEN /\ pc' = "error"
            /\ err' = "ValueError"
            /\ UNCHANGED <<interp_spec2, div_spec>>
       ELSE /\ interp_spec2' = interp1d(take(wave2, in_wave2),
                                        take(spec2, in_wave2), out_wave')
            /\ div_spec' = array([i \in 1..Len(out_wave') |->
                              div(interp_spec2'[i], take(spec1, in_wave1)[i])])
            /\ pc' = "normalize"
            /\ UNCHANGED err
    /\ UNCHANGED <<loaded, overlap, normed, fits, compared, printed, called>>

(* Normalize the continuum: the polynomial fit of the ratio *)

\* (np.isfinite(div_spec)) & (out_wave >= 1.70)
fit_set(ratio_spec, wave) ==
    array([i \in 1..Len(wave) |-> isfinite(ratio_spec[i]) /\ le(R(Cutoff), wave[i])])

Normalize ==
    /\ pc = "normalize"
    /\ ok_px' = fit_set(div_spec, out_wave)
    /\ \E r \in fitter(take(out_wave, ok_px'), take(div_spec, ok_px')) :
          IF r.raised
          THEN /\ pc' = "error"
               /\ err' = "FitterError"
               /\ UNCHANGED <<normalization, flux_scale_factor, scaled_spec1,
                              printed>>
          ELSE /\ normalization' = r.c
               /\ printed' = Append(printed, r.c)
               /\ flux_scale_factor' = polyval(r.c, out_wave)
               /\ scaled_spec1' =
                     array([i \in 1..Len(out_wave) |->
                        mul(take(spec1, in_wave1)[i], flux_scale_factor'[i])])
               /\ pc' = "fit1"
               /\ UNCHANGED err
    /\ UNCHANGED <<loaded, overlap, ratio, fits, compared, called>>

----------------------------------------------------------------------------
(* scipy.optimize.minimize(fit_metric, x0, args=(wave,), method='Nelder-Mead') *)
(* The search is a sequence of evaluations of the objective, the first at  *)
(* x0.  It keeps the best vertex found, moving only to a strictly lower    *)
(* objective; it has converged once no vertex it can try betters the best, *)
(* and otherwise stops at its evaluation limit.  It returns its result in  *)
(* both cases and raises in neither.                                       *)

\* mutant of initial_guess: the second registration starts where the first
\* one ended
initial_guess_as(r) == IF r = 2 THEN pixel_fit[1].x ELSE x0_guess

\* the initial guess handed to the minimizer by registration r
initial_guess(r) == x0_guess

\* the call enters the minimizer and evaluates the objective at x0
minimize_enter(r, x0, wave) ==
    /\ LET v == fit_metric(x0, wave)
       IN  opt' = [x0 |-> x0, args |-> wave, x |-> x0, fun |-> v, nit |-> 0,
                   trial |-> x0, value |-> v, tried |-> {}]
    /\ calls' = [calls EXCEPT ![r] = @ + 1]

\* pixel_fit = minimize(..., args=(wave2[in_wave2],), ...)
Register1 ==
    /\ pc = "fit1"
    /\ minimize_enter(1, initial_guess(1), take(wave2, in_wave2))
    /\ pc' = "min1"
    /\ UNCHANGED <<err, loaded, overlap, ratio, normed, pixel_fit, bad_wave2,
                   pixel_fit2, compared, printed, called>>

\* bad_wave2 = wave2[in_wave2] * 1.1; pixel_fit2 = minimize(..., args=(bad_wave2,), ...)
Register2 ==
    /\ pc = "fit2"
    /\ bad_wave2' = scale(take(wave2, in_wave2), bad_factor)
    /\ minimize_enter(2, initial_guess(2), bad_wave2')
    /\ pc' = "min2"
    /\ UNCHANGED <<err, loaded, overlap, ratio, normed, pixel_fit, pixel_fit2,
                   compared, printed, called>>

\* no vertex the search can try betters the best one
converged == opt.tried = Trials

\* one more evaluation of the objective, at a trial vertex
MinimizeEval ==
    /\ pc \in {"min1", "min2"}
    /\ ~converged
    /\ opt.nit + 1 < MaxEvals
    /\ \E t \in Trials \ opt.tried :
          LET v == fit_metric(t, opt.args)
              better == lt(v, opt.fun)
          IN  opt' = [opt EXCEPT !.x = IF better THEN t ELSE @,
                                 !.fun = IF better THEN v ELSE @,
                                 !.nit = @ + 1,
                                 !.trial = t, !.value = v,
                                 !.tried = IF better THEN {t} ELSE @ \cup {t}]
    /\ UNCHANGED <<pc, err, loaded, overlap, ratio, normed, calls, pixel_fit,
                   bad_wave2, pixel_fit2, compared, printed, called>>

\* what the minimizer hands back: an OptimizeResult.  The search reports
\* success when it converged and failure when it stopped at its evaluation
\* limit; it returns its best vertex in both cases.
result ==
    [x |-> opt.x, fun |-> opt.fun, nit |-> opt.nit, success |-> converged]

\* mutant of MinimizeReturn: a search that did not converge raises
MinimizeReturn_as ==
    /\ pc \in {"min1", "min2"}
    /\ converged \/ opt.nit + 1 >= MaxEvals
    /\ IF ~converged
       THEN /\ pc' = "error"
            /\ err' = "RuntimeError"
            /\ UNCHANGED <<pixel_fit, pixel_fit2, printed>>
       ELSE /\ IF pc = "min1"
               THEN /\ pixel_fit' = <<result>>
                    /\ pc' = "report1"
                    /\ UNCHANGED <<pixel_fit2, printed>>
               ELSE /\ pixel_fit2' = <<result>>
                    /\ printed' = Append(printed, result)
                    /\ pc' = "compare2"
                    /\ UNCHANGED pixel_fit
            /\ UNCHANGED err
    /\ UNCHANGED <<loaded, overlap, ratio, normed, opt, calls, bad_wave2,
                   compared, called>>

MinimizeReturn ==
    /\ pc \in {"min1", "min2"}
    /\ converged \/ opt.nit + 1 >= MaxEvals
    /\ IF pc = "min1"
       THEN /\ pixel_fit' = <<result>>
            /\ pc' = "report1"
            /\ UNCHANGED <<pixel_fit2, printed>>
       ELSE /\ pixel_fit2' = <<result>>
            /\ printed' = Append(printed, result)
            /\ pc' = "compare2"
            /\ UNCHANGED pixel_fit
    /\ UNCHANGED <<err, loaded, overlap, ratio, normed, opt, calls, bad_wave2,
                   compared, called>>

\* print(fit_metric(pixel_fit.x, wave2[in_wave2])); print(pixel_fit)
Report1 ==
    /\ pc = "report1"
    /\ printed' = printed \o
          << fit_metric(pixel_fit[1].x, take(wave2, in_wave2)), pixel_fit[1] >>
    /\ pc' = "compare1"
    /\ UNCHANGED <<err, loaded, overlap, ratio, normed, fits, compared, called>>

\* alt_wave2 = alter_wave(pixel_fit.x, wave2[in_wave2]); alt_spec2 = alter_spec(alt_wave2)
Compare1 ==
    /\ pc = "compare1"
    /\ alt_wave2' = alter_wave(pixel_fit[1].x, take(wave2, in_wave2))
    /\ alt_spec2' = alter_spec(alt_wave2')
    /\ pc' = "fit2"
    /\ UNCHANGED <<err, loaded, overlap, ratio, normed, fits, alt_wave2a,
                   alt_spec2a, printed, called>>

\* alt_wave2a = alter_wave(pixel_fit2.x, bad_wave2); alt_spec2a = alter_spec(alt_wave2a)
Compare2 ==
    /\ pc = "compare2"
    /\ alt_wave2a' = alter_wave(pixel_fit2[1].x, bad_wave2)
    /\ alt_spec2a' = alter_spec(alt_wave2a')
    /\ pc' = "done"
    /\ UNCHANGED <<err, loaded, overlap, ratio, normed, fits, alt_wave2,
                   alt_spec2, printed, called>>

Next ==
    \/ IsolateOverlap
    \/ Ratio
    \/ Normalize
    \/ Register1
    \/ MinimizeEval
    \/ MinimizeReturn
    \/ Report1
    \/ Compare1
    \/ Register2
    \/ Compare2

Spec == Init /\ [][Next]_vars

----------------------------------------------------------------------------
(* alter_wave on its own: any coefficient vector, any wavelength array *)

CoefValues == {R(-1), R(0), R(1), div(R(1), bad_factor)}

CoefVectors ==
    UNION { [1..n -> CoefValues] : n \in 1..MaxCoefs }

WarpInit ==
    /\ pc = "warp"
    /\ wave1 = Unset /\ spec1 = Unset /\ wave2 = Unset /\ spec2 = Unset
    /\ Idle
    /\ call_coefs \in CoefVectors
    /\ call_wave \in Grids \cup { scale(g, bad_factor) : g \in Grids }
    /\ call_ret = Unset

CallAlterWave ==
    /\ pc = "warp"
    /\ call_ret' = alter_wave(call_coefs, call_wave)
    /\ pc' = "warped"
    /\ UNCHANGED <<err, loaded, overlap, ratio, normed, fits, compared,
                   printed, call_coefs, call_wave>>

WarpNext == CallAlterWave

SpecWarp == WarpInit /\ [][WarpNext]_vars

----------------------------------------------------------------------------
(* Vocabulary of the properties *)

\* a <= b and a < b for finite values, by cross multiplication
Leq(a, b) == a[1] * b[2] <= b[1] * a[2]
Less(a, b) == a[1] * b[2] < b[1] * a[2]

\* |a - b| <= 1/1000
Near(a, b) ==
    Abs(a[1] * b[2] - b[1] * a[2]) * 1000 <= a[2] * b[2]

Values(a) == { a[i] : i \in 1..Len(a) }
Least(a) == CHOOSE v \in Values(a) : \A u \in Values(a) : Leq(v, u)
Greatest(a) == CHOOSE v \in Values(a) : \A u \in Values(a) : Leq(u, v)

\* lo = max(min(w1), min(w2)), hi = min(max(w1), max(w2))
Lo == IF Leq(Least(wave1), Least(wave2)) THEN Least(wave2) ELSE Least(wave1)
Hi == IF Leq(Greatest(wave1), Greatest(wave2))
      THEN Greatest(wave1) ELSE Greatest(wave2)

InRange(w) == Leq(Lo, w) /\ Leq(w, Hi)

\* the two wavelength ranges do not intersect
NoIntersect == Less(Hi, Lo)

\* every in-range sample of the spectrum has zero flux
AllZero1 == \A i \in 1..Len(wave1) : InRange(wave1[i]) => spec1[i] = R(0)
AllZero2 == \A i \in 1..Len(wave2) : InRange(wave2[i]) => spec2[i] = R(0)

NoneSelected(mask) == \A i \in 1..Len(mask) : ~mask[i]
Selected(mask) == { i \in 1..Len(mask) : mask[i] }

\* where the run stands
AfterNormalize == {"fit1", "min1", "report1", "compare1", "fit2", "min2",
                   "compare2", "done"}
Overlapped == pc \in {"ratio", "normalize", "error"} \cup AfterNormalize
Normalized == pc \in AfterNormalize \/ (pc = "error" /\ err # "ValueError")
Returned1 == pc \in {"report1", "compare1", "fit2", "min2", "compare2", "done"}
Returned2 == pc \in {"compare2", "done"}
Minimizing == pc \in {"min1", "min2"}

Identical == wave1 = wave2 /\ spec1 = spec2

\* the samples of the fit set determine the scale factor at every overlap
\* sample: there are more than Degree of them, or they are all the overlap
\* samples
FitDetermined ==
    \/ Cardinality(Selected(ok_px)) > Degree
    \/ (Len(ok_px) > 0 /\ \A i \in 1..Len(ok_px) : ok_px[i])

----------------------------------------------------------------------------
\* C1: once the overlap cell has run, wave_lo and wave_hi are
\* max(min(w1), min(w2)) and min(max(w1), max(w2)), and the mask of each
\* spectrum is true at i exactly when lo <= wavelength[i] <= hi (both ends
\* included) and flux[i] is not 0: a zero-flux sample inside the range is
\* left out and no sample outside the range is selected.
C1_OverlapMask ==
    Overlapped =>
        /\ wave_lo = Lo /\ wave_hi = Hi
        /\ Len(in_wave1) = Len(wave1) /\ Len(in_wave2) = Len(wave2)
        /\ \A i \in 1..Len(wave1) :
              in_wave1[i] <=> (InRange(wave1[i]) /\ spec1[i] # R(0))
        /\ \A i \in 1..Len(wave2) :
              in_wave2[i] <=> (InRange(wave2[i]) /\ spec2[i] # R(0))

\* a zero-flux sample on the upper bound is left out, a sample outside the
\* range is left out, and a sample on the lower bound is selected
C1_Witness ==
    /\ pc = "ratio"
    /\ \E i, j, k \in 1..Len(wave1) :
          /\ wave1[i] = Hi /\ spec1[i] = R(0) /\ ~in_wave1[i]
          /\ ~InRange(wave1[j]) /\ spec1[j] # R(0) /\ ~in_wave1[j]
          /\ wave1[k] = Lo /\ in_wave1[k]

----------------------------------------------------------------------------
\* C2: non-convergence is not an error.  Each registration enters the
\* minimizer exactly once; whatever the convergence flag, the run goes on with
\* no error, the result holds the best coefficient vector found together with
\* the status (success flag, final objective, iteration count), its objective
\* is the objective at its coefficients and is not above the objective at the
\* starting guess, and the result is printed for the caller.  The run ends in
\* an error only before the first registration.
Member(v, q) == \E i \in 1..Len(q) : q[i] = v

C2_ResultOf(r, wave) ==
    /\ DOMAIN r = {"x", "fun", "nit", "success"}
    /\ r.x \in {x0_guess} \cup Trials
    /\ r.fun = fit_metric(r.x, wave)
    /\ ~lt(fit_metric(x0_guess, wave), r.fun)
    /\ r.nit \in 0..(MaxEvals - 1)
    /\ r.success \in BOOLEAN

C2_NonConvergence ==
    /\ calls[1] <= 1 /\ calls[2] <= 1
    /\ pc = "error" => err \in {"ValueError", "FitterError"} /\ calls = <<0, 0>>
    /\ pc # "error" => err = "none"
    /\ Minimizing => ~lt(opt.value, opt.fun)
    /\ Returned1 =>
          /\ calls[1] = 1
          /\ Len(pixel_fit) = 1
          /\ C2_ResultOf(pixel_fit[1], take(wave2, in_wave2))
          /\ pc # "report1" => Member(pixel_fit[1], printed)
    /\ Returned2 =>
          /\ calls[2] = 1
          /\ Len(pixel_fit2) = 1
          /\ C2_ResultOf(pixel_fit2[1], bad_wave2)
          /\ Member(pixel_fit2[1], printed)

\* both registrations ended without convergence and the run completed
C2_Witness ==
    /\ pc = "done"
    /\ ~pixel_fit[1].success /\ pixel_fit[1].x # x0_guess
    /\ ~pixel_fit2[1].success /\ pixel_fit2[1].x # x0_guess

----------------------------------------------------------------------------
\* C3 as claimed: whenever the ranges do not intersect or every in-range
\* sample of a spectrum has zero flux, the overlap cell ends the run with
\* EmptyOverlapError and no later step is reached.
C3_Original ==
    (Overlapped /\ (NoIntersect \/ AllZero1 \/ AllZero2)) =>
        pc = "error" /\ err = "EmptyOverlapError"

\* C3 as amended: in those cases the overlap cell raises nothing and leaves
\* an all-false mask for the spectrum concerned; the ratio cell that follows
\* is entered, and the run stops there, with interp1d's ValueError, exactly
\* when the mask of the second spectrum selects fewer than two samples (as it
\* does when the ranges do not intersect or the in-range flux of the second
\* spectrum is all zero); otherwise it goes on with an empty reference
\* selection.
C3_Amended ==
    (Overlapped /\ (NoIntersect \/ AllZero1 \/ AllZero2)) =>
        /\ err # "EmptyOverlapError"
        /\ pc = "ratio" => err = "none"
        /\ (NoIntersect \/ AllZero1) => NoneSelected(in_wave1)
        /\ (NoIntersect \/ AllZero2) => NoneSelected(in_wave2)
        /\ pc # "ratio" =>
              ((pc = "error" /\ err = "ValueError")
                  <=> Cardinality(Selected(in_wave2)) < 2)
        /\ (NoIntersect \/ AllZero2) /\ pc # "ratio" =>
              pc = "error" /\ err = "ValueError"

\* the reference selection is empty, the second spectrum keeps two samples,
\* and the run has gone past the ratio cell into the registration
C3_Witness ==
    /\ pc = "min1"
    /\ AllZero1 /\ NoneSelected(in_wave1)
    /\ Cardinality(Selected(in_wave2)) >= 2

----------------------------------------------------------------------------
\* C4 as claimed: whenever the fit set is empty (no sample of the ratio is
\* both finite and at or beyond the cutoff), normalization ends with
\* DomainError and leaves no polynomial.
C4_DomainError ==
    (Normalized /\ NoneSelected(ok_px)) =>
        pc = "error" /\ err = "DomainError"

----------------------------------------------------------------------------
\* C5: when the two wavelength ranges do not intersect, the overlap cell
\* completes without raising (the run stands at the ratio cell with no error)
\* and both masks are all-false; the cell makes no emptiness check.
C5_SilentEmpty ==
    /\ [](Overlapped /\ NoIntersect =>
            /\ NoneSelected(in_wave1) /\ NoneSelected(in_wave2)
            /\ Len(in_wave1) = Len(wave1) /\ Len(in_wave2) = Len(wave2)
            /\ err # "EmptyOverlapError")
    /\ [][pc = "overlap" /\ NoIntersect => pc' = "ratio" /\ err' = "none"]_vars

\* disjoint ranges, both spectra with flux, after the overlap cell
C5_Witness ==
    /\ pc = "ratio" /\ NoIntersect
    /\ \E i \in 1..Len(wave1) : spec1[i] # R(0)
    /\ \E i \in 1..Len(wave2) : spec2[i] # R(0)

----------------------------------------------------------------------------
\* C6 as claimed: for two identical spectra on identical grids the objective
\* at the identity [0, 1, 0] is 0, and the first registration returns the
\* identity with final objective 0.  (Stated for the runs whose fit set is
\* not empty, so that a failure owes nothing to C4.)
C6_Original ==
    (Identical /\ Returned1 /\ ~NoneSelected(ok_px)) =>
        /\ fit_metric(x0_guess, take(wave2, in_wave2)) = R(0)
        /\ pixel_fit[1].x = x0_guess
        /\ pixel_fit[1].fun = R(0)

\* C6 as amended: the same, provided the normalization fit set holds at
\* least three samples or every overlap sample (so that the fitted scale
\* factor is 1 at every overlap sample).
C6_Amended ==
    (Identical /\ Returned1 /\ FitDetermined) =>
        /\ flux_scale_factor = [i \in 1..Len(out_wave) |-> R(1)]
        /\ fit_metric(x0_guess, take(wave2, in_wave2)) = R(0)
        /\ pixel_fit[1].x = x0_guess
        /\ pixel_fit[1].fun = R(0)

\* identical spectra with varying flux, three samples in the fit set, the
\* first registration returned
C6_Witness ==
    /\ Identical /\ Returned1
    /\ Cardinality(Selected(ok_px)) > Degree
    /\ \E i, j \in Selected(in_wave2) : spec2[i] # spec2[j]
    /\ pixel_fit[1].success

----------------------------------------------------------------------------
----------------------------------------------------------------------------
\* C8: for a coefficient vector c of any length n + 1 >= 1 the warp of a
\* wavelength array is, element by element, the polynomial
\* c[0] + c[1] w + ... + c[n] w^n (here by Horner's rule), as long as the
\* input; the order is the length of c alone; the identity [0, 1, 0] returns
\* the input array.
RECURSIVE Horner(_, _, _)
Horner(c, w, k) ==
    IF k > Len(c) THEN R(0) ELSE add(c[k], mul(w, Horner(c, w, k + 1)))

C8_Warp ==
    pc = "warped" =>
        /\ Len(call_ret) = Len(call_wave)
        /\ \A i \in 1..Len(call_wave) :
              call_ret[i] = Horner(call_coefs, call_wave[i], 1)
        /\ call_coefs = x0_guess => call_ret = call_wave

\* a quadratic with every coefficient set, on a scaled array of full length
C8_Witness ==
    /\ pc = "warped"
    /\ Len(call_coefs) = MaxCoefs
    /\ \A k \in 1..Len(call_coefs) : call_coefs[k] # R(0)
    /\ Len(call_wave) = MaxLen
    /\ call_wave[1][2] # 1

----------------------------------------------------------------------------
\* C9: at every evaluation the objective is the standard deviation (carried
\* as its square: the mean of the squares less the square of the mean, every
\* sample with the same weight) of the difference, sample by sample over the
\* selected reference samples, between the second spectrum resampled from the
\* warped wavelengths onto the reference grid and the normalized reference;
\* both have as many samples as the reference mask selects, and the
\* normalized reference is the reference flux times the fitted scale factor.
C9_Difference(t, w) ==
    [i \in 1..Len(out_wave) |->
        sub(interp1d(alter_wave(t, w), take(spec2, in_wave2), out_wave)[i],
            mul(take(spec1, in_wave1)[i],
                polyval(normalization, out_wave)[i]))]

C9_StdSquared(d) ==
    IF Len(d) = 0 THEN NaN
    ELSE LET n == R(Len(d))
             m1 == div(sum(d), n)
             m2 == div(sum([i \in 1..Len(d) |-> mul(d[i], d[i])]), n)
         IN  sub(m2, mul(m1, m1))

C9_Objective ==
    Minimizing =>
        /\ opt.value = C9_StdSquared(C9_Difference(opt.trial, opt.args))
        /\ Len(alter_spec(alter_wave(opt.trial, opt.args)))
              = Cardinality(Selected(in_wave1))
        /\ Len(scaled_spec1) = Cardinality(Selected(in_wave1))
        /\ flux_scale_factor = polyval(normalization, out_wave)
        /\ \A i \in 1..Len(scaled_spec1) :
              scaled_spec1[i]
                  = mul(take(spec1, in_wave1)[i], flux_scale_factor[i])

\* a trial other than x0, a scale factor that is not 1, a finite objective
\* that is not 0, over three reference samples
C9_Witness ==
    /\ Minimizing
    /\ opt.trial # x0_guess
    /\ isfinite(opt.value) /\ opt.value # R(0)
    /\ Len(out_wave) = MaxLen
    /\ \E i \in 1..Len(out_wave) : flux_scale_factor[i] # R(1)

----------------------------------------------------------------------------
\* C10: from the end of normalization on, no step changes the loaded spectra,
\* the overlap masks, the reference grid and the ratio, the normalization
\* polynomial or the normalized reference; within one call of the minimizer
\* the wavelength array and the initial guess it was given stay the same;
\* every objective value is the objective of the trial coefficients and that
\* wavelength array alone; and the second registration starts from
\* [0, 1, 0] on the scaled array, whatever the first one returned.
C10_Step ==
    pc \in AfterNormalize =>
        /\ UNCHANGED <<loaded, overlap, ratio, normed>>
        /\ (Minimizing /\ pc' = pc) =>
              (opt'.args = opt.args /\ opt'.x0 = opt.x0)
        /\ Returned1 => pixel_fit' = pixel_fit

C10_Frame ==
    /\ [][C10_Step]_vars
    /\ [](Minimizing =>
            /\ opt.x0 = x0_guess
            /\ opt.args = (IF pc = "min1" THEN take(wave2, in_wave2)
                           ELSE scale(take(wave2, in_wave2), bad_factor))
            /\ opt.value = fit_metric(opt.trial, opt.args)
            /\ opt.nit = 0 => opt.x = x0_guess /\ opt.trial = x0_guess)

\* the second registration has just started from [0, 1, 0] although the
\* first one returned other coefficients
C10_Witness ==
    /\ pc = "min2" /\ opt.nit = 0
    /\ pixel_fit[1].x # x0_guess
    /\ opt.x = x0_guess

====
